---- MODULE Spec2Model ----
(***************************************************************************)
(* A model of the gen-block language service core:                         *)
(*   - the token scanner, findGenBlocks and transformBlockContent          *)
(*     (scanner module),                                                   *)
(*   - TextEditor (gen-block/text-editor.ts) with its VLQ encoder,         *)
(*   - decodeMappings, PositionMapper and the transform cache              *)
(*     (gen-block/position-mapper.ts).                                     *)
(*                                                                         *)
(* Strings are sequences of one-character strings; offsets are 0-based as  *)
(* in the source, so s[p] of the source is At(s, p) here.                  *)
(***************************************************************************)
EXTENDS Integers, Sequences, FiniteSets, TLC

VARIABLES
    source,          \* scanner: the input text of tokenize / findGenBlocks / transformBlockContent
    pos,             \* scanner: tokenize's pos
    tokens,          \* scanner: tokenize's tokens
    blocks,          \* findGenBlocks' result
    output,          \* transformBlockContent's result
    pc,              \* which call has completed
    original,        \* TextEditor.original
    edits,           \* TextEditor.edits, in call order
    transformCache,  \* position-mapper.ts transformCache: key -> entry
    stored,          \* history: the arguments of the latest store of each key not yet cleared
    call,            \* the latest exported call and its arguments
    ret,             \* what that call returned
    table,           \* codec: the correspondence table handed to encodeMappings
    encoded,         \* codec: encodeMappings' result
    decoded          \* codec: decodeMappings' result

vars == <<source, pos, tokens, blocks, output, pc, original, edits,
          transformCache, stored, call, ret, table, encoded, decoded>>

scanVars == <<source, pos, tokens, blocks, output, pc>>
editVars == <<original, edits>>
cacheVars == <<transformCache, stored, call, ret>>
codecVars == <<table, encoded, decoded>>

(***************************************************************************)
(* JavaScript string primitives                                            *)
(***************************************************************************)

\* The back-quote character (the string syntax of the language cannot write it).
Backtick == "backtick"

\* What s[p] yields past the end of a string: no character.
Undefined == "undefined"

Min(a, b) == IF a < b THEN a ELSE b
Max(a, b) == IF a > b THEN a ELSE b

\* s[p], 0-based.
At(s, p) == IF p >= 0 /\ p < Len(s) THEN s[p + 1] ELSE Undefined

\* s.slice(a, b) for a, b >= 0: both ends are clamped to the length.
Slice(s, a, b) == SubSeq(s, Min(a, Len(s)) + 1, Min(b, Len(s)))

\* s.slice(a)
SliceFrom(s, a) == SubSeq(s, Min(a, Len(s)) + 1, Len(s))

\* All strings over alphabet A of length 0..n.
StringsOver(A, n) == UNION {[1..k -> A] : k \in 0..n}

RECURSIVE Flatten(_)
\* The concatenation of a sequence of strings.
Flatten(ss) == IF ss = <<>> THEN <<>> ELSE Head(ss) \o Flatten(Tail(ss))

Letters == {"a", "b", "c", "d", "e", "f", "g", "h", "i", "j", "k", "l", "m", "n", "o", "p", "q",
            "r", "s", "t", "u", "v", "w", "x", "y", "z",
            "A", "B", "C", "D", "E", "F", "G", "H", "I", "J", "K", "L", "M", "N", "O", "P", "Q",
            "R", "S", "T", "U", "V", "W", "X", "Y", "Z"}
Digits == {"0", "1", "2", "3", "4", "5", "6", "7", "8", "9"}
PunctuatorChars == {"{", "}", "(", ")", "[", "]", ";", ":", ",", ".", "<", ">", "?", "!", "+",
                    "-", "*", "/", "%", "=", "&", "|", "^", "~", "@", "#"}

\* /[a-zA-Z_$]/.test(char)
isIdentifierStart(char) == char \in Letters \cup {"_", "$"}

\* /[a-zA-Z0-9_$]/.test(char)
isIdentifierPart(char) == char \in Letters \cup Digits \cup {"_", "$"}

\* /[0-9]/.test(char); the test of an absent character is false.
isDigit(char) == char \in Digits

\* /[{}()[\];:,.<>?!+\-*/%=&|^~@#]/.test(char)
isPunctuator(char) == char \in PunctuatorChars

(***************************************************************************)
(* tokenize: one iteration of the scan loop per branch                     *)
(***************************************************************************)

\* A white-space scan that consumes nothing.
whiteSpaceEndStuck(s, p) == p

RECURSIVE whiteSpaceEnd(_, _)
\* while (pos < source.length && (source[pos] === " " || source[pos] === "\t")) pos++
whiteSpaceEnd(s, p) ==
    IF p < Len(s) /\ At(s, p) \in {" ", "\t"} THEN whiteSpaceEnd(s, p + 1) ELSE p

\* "\r\n" is one terminator, otherwise one character.
lineTerminatorEnd(s, p) ==
    IF At(s, p) = "\r" /\ At(s, p + 1) = "\n" THEN p + 2 ELSE p + 1

RECURSIVE singleLineCommentEnd(_, _)
\* while (pos < source.length && source[pos] !== "\n" && source[pos] !== "\r") pos++
singleLineCommentEnd(s, p) ==
    IF p < Len(s) /\ At(s, p) # "\n" /\ At(s, p) # "\r" THEN singleLineCommentEnd(s, p + 1) ELSE p

RECURSIVE multiLineCommentScan(_, _)
\* while (pos < source.length - 1 && !(source[pos] === "*" && source[pos + 1] === "/")) pos++
multiLineCommentScan(s, p) ==
    IF p < Len(s) - 1 /\ ~(At(s, p) = "*" /\ At(s, p + 1) = "/")
    THEN multiLineCommentScan(s, p + 1) ELSE p

\* pos += 2; the loop; pos += 2 (also when no closing marker was found)
multiLineCommentEnd(s, p) == multiLineCommentScan(s, p + 2) + 2

RECURSIVE skipQuoted(_, _, _)
\* while (pos < source.length && source[pos] !== quote)
\*   if (source[pos] === "\\") pos += 2 else pos++
skipQuoted(s, p, quote) ==
    IF p < Len(s) /\ At(s, p) # quote
    THEN skipQuoted(s, IF At(s, p) = "\\" THEN p + 2 ELSE p + 1, quote)
    ELSE p

\* pos++; the loop; pos++ (the closing quote, present or not)
stringLiteralEnd(s, p) == skipQuoted(s, p + 1, At(s, p)) + 1

RECURSIVE templateExpressionEnd(_, _, _)
\* The ${ region: while (pos < source.length && depth > 0) { ...; pos++ }
templateExpressionEnd(s, p, depth) ==
    IF p < Len(s) /\ depth > 0
    THEN LET c == At(s, p) IN
         IF c = "{" THEN templateExpressionEnd(s, p + 1, depth + 1)
         ELSE IF c = "}" THEN templateExpressionEnd(s, p + 1, depth - 1)
         ELSE IF c = Backtick THEN templateExpressionEnd(s, skipQuoted(s, p + 1, Backtick) + 1, depth)
         ELSE IF c = "\"" \/ c = "'" THEN templateExpressionEnd(s, skipQuoted(s, p + 1, c) + 1, depth)
         ELSE templateExpressionEnd(s, p + 1, depth)
    ELSE p

RECURSIVE templateScan(_, _)
\* while (pos < source.length && source[pos] !== backtick) { escape | ${ ... } | pos++ }
templateScan(s, p) ==
    IF p < Len(s) /\ At(s, p) # Backtick
    THEN IF At(s, p) = "\\" THEN templateScan(s, p + 2)
         ELSE IF At(s, p) = "$" /\ At(s, p + 1) = "{"
              THEN templateScan(s, templateExpressionEnd(s, p + 2, 1))
              ELSE templateScan(s, p + 1)
    ELSE p

\* pos++; the loop; pos++ (the closing backtick, present or not)
templateLiteralEnd(s, p) == templateScan(s, p + 1) + 1

RECURSIVE identifierEnd(_, _)
\* while (pos < source.length && isIdentifierPart(source[pos])) pos++
identifierEnd(s, p) ==
    IF p < Len(s) /\ isIdentifierPart(At(s, p)) THEN identifierEnd(s, p + 1) ELSE p

ThreeCharOps == {<<"=", "=", "=">>, <<"!", "=", "=">>, <<">", ">", ">">>,
                 <<".", ".", ".">>, <<"*", "*", "=">>}
TwoCharOps == {<<"=", "=">>, <<"!", "=">>, <<"<", "=">>, <<">", "=">>, <<"&", "&">>,
               <<"|", "|">>, <<"+", "+">>, <<"-", "-">>, <<"+", "=">>, <<"-", "=">>,
               <<"*", "=">>, <<"/", "=">>, <<"=", ">">>, <<"<", "<">>, <<">", ">">>,
               <<"?", "?">>, <<"?", ".">>, <<"<", "-">>}

\* Longest match: a 3-character operator, else a 2-character one, else one character.
punctuatorEnd(s, p) ==
    IF Slice(s, p, p + 3) \in ThreeCharOps THEN p + 3
    ELSE IF Slice(s, p, p + 2) \in TwoCharOps THEN p + 2
    ELSE p + 1

RECURSIVE numberScan(_, _)
\* The run of digits . e E _ ; e/E followed by +/- is consumed as a unit.
numberScan(s, p) ==
    IF p < Len(s) /\ (isDigit(At(s, p)) \/ At(s, p) \in {".", "e", "E", "_"})
    THEN IF At(s, p) \in {"e", "E"} /\ At(s, p + 1) \in {"+", "-"}
         THEN numberScan(s, p + 2)
         ELSE numberScan(s, p + 1)
    ELSE p

\* The run, then the BigInt suffix: if (source[pos] === "n") pos++
numberEnd(s, p) ==
    LET q == numberScan(s, p) IN IF At(s, q) = "n" THEN q + 1 ELSE q

\* The branch taken by the iteration that starts at pos, and where it leaves pos.
scanBranch(s, p) ==
    LET char == At(s, p) IN
    IF char = " " \/ char = "\t" THEN [type |-> "WhiteSpace", end |-> whiteSpaceEnd(s, p)]
    ELSE IF char = "\n" \/ char = "\r"
        THEN [type |-> "LineTerminatorSequence", end |-> lineTerminatorEnd(s, p)]
    ELSE IF char = "/" /\ At(s, p + 1) = "/"
        THEN [type |-> "SingleLineComment", end |-> singleLineCommentEnd(s, p + 2)]
    ELSE IF char = "/" /\ At(s, p + 1) = "*"
        THEN [type |-> "MultiLineComment", end |-> multiLineCommentEnd(s, p)]
    ELSE IF char = "\"" \/ char = "'"
        THEN [type |-> "StringLiteral", end |-> stringLiteralEnd(s, p)]
    ELSE IF char = Backtick THEN [type |-> "TemplateLiteral", end |-> templateLiteralEnd(s, p)]
    ELSE IF isIdentifierStart(char) THEN [type |-> "IdentifierName", end |-> identifierEnd(s, p)]
    ELSE IF isPunctuator(char) THEN [type |-> "Punctuator", end |-> punctuatorEnd(s, p)]
    ELSE IF isDigit(char) \/ (char = "." /\ isDigit(At(s, p + 1)))
        THEN [type |-> "Other", end |-> numberEnd(s, p)]
    ELSE [type |-> "Other", end |-> p + 1]

\* A scanner that keeps a string literal's content without its quotes.
tokenAtUnquoted(s, p) ==
    LET b == scanBranch(s, p) IN
    [type |-> b.type,
     value |-> IF b.type = "StringLiteral" THEN Slice(s, p + 1, b.end - 1) ELSE Slice(s, p, b.end),
     start |-> p, end |-> b.end]

\* tokens.push({ type, value: source.slice(start, pos), start, end: pos })
tokenAt(s, p) ==
    LET b == scanBranch(s, p) IN
    [type |-> b.type, value |-> Slice(s, p, b.end), start |-> p, end |-> b.end]

RECURSIVE tokenizeFrom(_, _, _)
tokenizeFrom(s, p, acc) ==
    IF p < Len(s)
    THEN LET t == tokenAt(s, p) IN tokenizeFrom(s, t.end, Append(acc, t))
    ELSE acc

\* function tokenize(source): the whole scan.
tokenize(s) == tokenizeFrom(s, 0, <<>>)

\* The token values of a token list, concatenated in order.
TokenText(toks) == Flatten([i \in 1..Len(toks) |-> toks[i].value])

(***************************************************************************)
(* hasGenBlocks and findGenBlocks                                          *)
(***************************************************************************)

\* \w of a regular expression: [A-Za-z0-9_]
isWordChar(char) == char \in Letters \cup Digits \cup {"_"}

\* \s of a regular expression, over the characters of the model.
isSpaceChar(char) == char \in {" ", "\t", "\n", "\r"}

RECURSIVE skipSpace(_, _)
\* Where a greedy \s* that starts at p ends.
skipSpace(s, p) == IF p < Len(s) /\ isSpaceChar(At(s, p)) THEN skipSpace(s, p + 1) ELSE p

\* /\bgen\s*\{/.test(source)
hasGenBlocks(s) ==
    \E i \in 0..(Len(s) - 1) :
        /\ Slice(s, i, i + 3) = <<"g", "e", "n">>
        /\ (i = 0 \/ ~isWordChar(At(s, i - 1)))
        /\ At(s, skipSpace(s, i + 3)) = "{"

InsignificantTypes == {"WhiteSpace", "LineTerminatorSequence", "SingleLineComment", "MultiLineComment"}

RECURSIVE nextSignificant(_, _)
\* let j = i + 1; while (j < tokens.length) { if (significant) break; j++ }
\* Token indices are 0-based as in the source: tokens[j] is toks[j + 1].
nextSignificant(toks, j) ==
    IF j < Len(toks) /\ toks[j + 1].type \in InsignificantTypes
    THEN nextSignificant(toks, j + 1) ELSE j

RECURSIVE matchBraceFirstClose(_, _, _)
\* A scan that stops at the first closing brace, whatever the depth.
matchBraceFirstClose(toks, k, depth) ==
    IF k < Len(toks) /\ ~(toks[k + 1].type = "Punctuator" /\ toks[k + 1].value = <<"}">>)
    THEN matchBraceFirstClose(toks, k + 1, depth)
    ELSE IF k < Len(toks) THEN [k |-> k + 1, depth |-> 0] ELSE [k |-> k, depth |-> depth]

RECURSIVE matchBrace(_, _, _)
\* while (k < tokens.length && depth > 0) { { : depth++, } : depth--; k++ }
matchBrace(toks, k, depth) ==
    IF k < Len(toks) /\ depth > 0
    THEN LET t == toks[k + 1]
             d == IF t.type = "Punctuator" /\ t.value = <<"{">> THEN depth + 1
                  ELSE IF t.type = "Punctuator" /\ t.value = <<"}">> THEN depth - 1
                  ELSE depth
         IN matchBrace(toks, k + 1, d)
    ELSE [k |-> k, depth |-> depth]

\* for (let i = 0; ...; i++): after a block is pushed the loop goes on at i + 1.
nextCandidate(i, k) == i + 1

RECURSIVE findGenBlocksFrom(_, _, _, _)
\* The body of for (let i = 0; i < tokens.length; i++)
findGenBlocksFrom(s, toks, i, acc) ==
    IF i >= Len(toks) THEN acc
    ELSE LET token == toks[i + 1] IN
         IF token.type # "IdentifierName" \/ token.value # <<"g", "e", "n">>
         THEN findGenBlocksFrom(s, toks, i + 1, acc)
         ELSE LET j == nextSignificant(toks, i + 1) IN
              IF j >= Len(toks) THEN findGenBlocksFrom(s, toks, i + 1, acc)
              ELSE LET braceToken == toks[j + 1] IN
                   IF braceToken.type # "Punctuator" \/ braceToken.value # <<"{">>
                   THEN findGenBlocksFrom(s, toks, i + 1, acc)
                   ELSE LET m == matchBrace(toks, j + 1, 1) IN
                        IF m.depth = 0
                        THEN LET end == toks[m.k].end
                                 block == [start |-> token.start,
                                           end |-> end,
                                           content |-> Slice(s, braceToken.start + 1, end - 1),
                                           braceStart |-> braceToken.start]
                             IN findGenBlocksFrom(s, toks, nextCandidate(i, m.k), Append(acc, block))
                        ELSE findGenBlocksFrom(s, toks, i + 1, acc)

\* export function findGenBlocks(source)
findGenBlocks(s) ==
    IF ~hasGenBlocks(s) THEN <<>> ELSE findGenBlocksFrom(s, tokenize(s), 0, <<>>)

(***************************************************************************)
(* The source-map codec: encodeVLQ / encodeMappings (text-editor.ts) and   *)
(* decodeVLQ / decodeMappings (position-mapper.ts)                         *)
(***************************************************************************)

\* const BASE64_CHARS = "ABC...+/"
BASE64_CHARS ==
    <<"A", "B", "C", "D", "E", "F", "G", "H", "I", "J", "K", "L", "M", "N", "O", "P",
      "Q", "R", "S", "T", "U", "V", "W", "X", "Y", "Z", "a", "b", "c", "d", "e", "f",
      "g", "h", "i", "j", "k", "l", "m", "n", "o", "p", "q", "r", "s", "t", "u", "v",
      "w", "x", "y", "z", "0", "1", "2", "3", "4", "5", "6", "7", "8", "9", "+", "/">>

\* BASE64_CHARS[digit]
Base64Char(digit) == BASE64_CHARS[digit + 1]

\* BASE64_DECODE[char]; -1 stands for undefined.
BASE64_DECODE(char) ==
    IF \E i \in 1..Len(BASE64_CHARS) : BASE64_CHARS[i] = char
    THEN (CHOOSE i \in 1..Len(BASE64_CHARS) : BASE64_CHARS[i] = char) - 1
    ELSE -1

RECURSIVE Pow2(_)
Pow2(n) == IF n = 0 THEN 1 ELSE 2 * Pow2(n - 1)

RECURSIVE encodeVLQDigits(_, _, _)
\* while (value > 0) { result += CHARS[digit | 32]; digit = value & 31; value >>>= 5 }
\* result += CHARS[digit]
encodeVLQDigits(value, digit, result) ==
    IF value > 0
    THEN encodeVLQDigits(value \div 32, value % 32, Append(result, Base64Char(digit + 32)))
    ELSE Append(result, Base64Char(digit))

\* An encoder that drops the sign.
encodeVLQUnsigned(value) ==
    LET v == IF value < 0 THEN -value ELSE value
    IN encodeVLQDigits(v \div 16, (v % 16) * 2, <<>>)

\* function encodeVLQ(value); every value of the model is below 2^31 in magnitude, where
\* the 32-bit operators &, << and >>> agree with %, * and \div.
encodeVLQ(value) ==
    LET signBit == IF value < 0 THEN 1 ELSE 0
        v == IF value < 0 THEN -value ELSE value
    IN encodeVLQDigits(v \div 16, (v % 16) * 2 + signBit, <<>>)

\* The comparator of encodeMappings' sort, as "a goes strictly before b".
generatedBefore(a, b) ==
    IF a.generatedLine # b.generatedLine THEN a.generatedLine < b.generatedLine
    ELSE a.generatedColumn < b.generatedColumn

RECURSIVE sortByGenerated(_)
\* [...mappings].sort(...): Array.prototype.sort is stable.
sortByGenerated(ms) ==
    IF ms = <<>> THEN <<>>
    ELSE LET rest == sortByGenerated(SubSeq(ms, 1, Len(ms) - 1))
             m == ms[Len(ms)]
             \* m goes after every element that is not strictly after it
             k == Cardinality({i \in 1..Len(rest) : ~generatedBefore(m, rest[i])})
         IN SubSeq(rest, 1, k) \o <<m>> \o SubSeq(rest, k + 1, Len(rest))

RECURSIVE removeDuplicates(_, _)
\* Remove duplicates (same generated line/column), keeping the first.
removeDuplicates(sorted, unique) ==
    IF sorted = <<>> THEN unique
    ELSE LET m == Head(sorted) IN
         IF unique = <<>>
            \/ unique[Len(unique)].generatedLine # m.generatedLine
            \/ unique[Len(unique)].generatedColumn # m.generatedColumn
         THEN removeDuplicates(Tail(sorted), Append(unique, m))
         ELSE removeDuplicates(Tail(sorted), unique)

\* Group by generated line: lines[m.generatedLine - 1].push(m), with empty lines between.
groupByLine(unique) ==
    LET n == IF unique = <<>> THEN 0 ELSE unique[Len(unique)].generatedLine
    IN [l \in 1..n |-> SelectSeq(unique, LAMBDA m : m.generatedLine = l)]

RECURSIVE Join(_, _)
\* parts.join(sep)
Join(parts, sep) ==
    IF parts = <<>> THEN <<>>
    ELSE IF Len(parts) = 1 THEN parts[1]
    ELSE parts[1] \o sep \o Join(Tail(parts), sep)

RECURSIVE encodeSegments(_, _, _, _, _)
\* for (const m of line): the four deltas of each entry. Returns the segments and the
\* running prevOrigLine / prevOrigCol.
encodeSegments(line, prevGenCol, prevOrigLine, prevOrigCol, segments) ==
    IF line = <<>>
    THEN [segments |-> segments, prevOrigLine |-> prevOrigLine, prevOrigCol |-> prevOrigCol]
    ELSE LET m == Head(line)
             genColDelta == m.generatedColumn - prevGenCol
             origLineDelta == (m.originalLine - 1) - prevOrigLine
             origColDelta == m.originalColumn - prevOrigCol
             segment == encodeVLQ(genColDelta) \o encodeVLQ(0) \o encodeVLQ(origLineDelta)
                            \o encodeVLQ(origColDelta)
         IN encodeSegments(Tail(line), m.generatedColumn, m.originalLine - 1, m.originalColumn,
                           Append(segments, segment))

RECURSIVE encodeLines(_, _, _, _)
\* for (const line of lines): prevGenCol = 0 at the start of each line.
encodeLines(lines, prevOrigLine, prevOrigCol, encodedLines) ==
    IF lines = <<>> THEN encodedLines
    ELSE LET r == encodeSegments(Head(lines), 0, prevOrigLine, prevOrigCol, <<>>)
         IN encodeLines(Tail(lines), r.prevOrigLine, r.prevOrigCol,
                        Append(encodedLines, Join(r.segments, <<",">>)))

\* private encodeMappings(mappings)
encodeMappings(mappings) ==
    LET unique == removeDuplicates(sortByGenerated(mappings), <<>>)
    IN Join(encodeLines(groupByLine(unique), 0, 0, <<>>), <<";">>)

RECURSIVE decodeVLQFrom(_, _, _, _)
\* for (const char of encoded) { ... }
decodeVLQFrom(chars, shift, value, values) ==
    IF chars = <<>> THEN values
    ELSE LET digit == BASE64_DECODE(Head(chars)) IN
         IF digit = -1 THEN decodeVLQFrom(Tail(chars), shift, value, values)
         ELSE LET hasContinuation == digit >= 32
                  v == value + (digit % 32) * Pow2(shift)
              IN IF hasContinuation
                 THEN decodeVLQFrom(Tail(chars), shift + 5, v, values)
                 ELSE decodeVLQFrom(Tail(chars), 0, 0,
                                    Append(values, IF v % 2 = 1 THEN -(v \div 2) ELSE v \div 2))

\* function decodeVLQ(encoded)
decodeVLQ(chars) == decodeVLQFrom(chars, 0, 0, <<>>)

RECURSIVE Split(_, _)
\* s.split(sep) for a one-character separator: "" splits to [""].
Split(s, sep) ==
    IF \E i \in 1..Len(s) : s[i] = sep
    THEN LET i == CHOOSE i \in 1..Len(s) : s[i] = sep /\ \A k \in 1..(i - 1) : s[k] # sep
         IN <<SubSeq(s, 1, i - 1)>> \o Split(SubSeq(s, i + 1, Len(s)), sep)
    ELSE <<s>>

RECURSIVE decodeSegments(_, _, _, _, _)
\* for (const segment of segments): st holds prevSourceIndex, prevOrigLine, prevOrigCol,
\* prevNameIndex and the mappings decoded so far.
decodeSegments(segments, lineNum, genCol, st, k) ==
    IF k > Len(segments) THEN st
    ELSE LET values == decodeVLQ(segments[k]) IN
         IF segments[k] = <<>> \/ values = <<>>
         THEN decodeSegments(segments, lineNum, genCol, st, k + 1)
         ELSE LET col == genCol + values[1] IN
              IF Len(values) >= 4
              THEN LET src == st.prevSourceIndex + values[2]
                       ol == st.prevOrigLine + values[3]
                       oc == st.prevOrigCol + values[4]
                       mapping == [generatedLine |-> lineNum + 1,
                                   generatedColumn |-> col,
                                   sourceIndex |-> src,
                                   originalLine |-> ol + 1,
                                   originalColumn |-> oc]
                   IN decodeSegments(segments, lineNum, col,
                                     [prevSourceIndex |-> src, prevOrigLine |-> ol,
                                      prevOrigCol |-> oc,
                                      decoded |-> Append(st.decoded, mapping)], k + 1)
              ELSE decodeSegments(segments, lineNum, col, st, k + 1)

RECURSIVE decodeLines(_, _, _)
\* for (let lineNum = 0; lineNum < lines.length; lineNum++)
decodeLines(lines, lineNum, st) ==
    IF lineNum >= Len(lines) THEN st.decoded
    ELSE IF lines[lineNum + 1] = <<>> THEN decodeLines(lines, lineNum + 1, st)
    ELSE decodeLines(lines, lineNum + 1,
                     decodeSegments(Split(lines[lineNum + 1], ","), lineNum, 0, st, 1))

\* function decodeMappings(mappings)
decodeMappings(mappings) ==
    decodeLines(Split(mappings, ";"), 0,
                [prevSourceIndex |-> 0, prevOrigLine |-> 0, prevOrigCol |-> 0, decoded |-> <<>>])

(***************************************************************************)
(* TextEditor (text-editor.ts)                                             *)
(***************************************************************************)

\* An edit is [type, pos, end, content] for an overwrite and [type, pos, content] for an
\* insert, as pushed by overwrite / appendLeft / appendRight.
overwriteEdit(start, end, content) ==
    [type |-> "overwrite", pos |-> start, end |-> end, content |-> content]
appendLeftEdit(p, content) == [type |-> "insertLeft", pos |-> p, content |-> content]
appendRightEdit(p, content) == [type |-> "insertRight", pos |-> p, content |-> content]

\* A comparator that orders equal positions by call order only.
compareEditsByPosOnly(a, b) == b.pos - a.pos

\* The comparator of applyEdits' sort: descending position, insertRight before insertLeft.
compareEdits(a, b) ==
    IF b.pos # a.pos THEN b.pos - a.pos
    ELSE IF a.type = "insertRight" /\ b.type = "insertLeft" THEN -1
    ELSE IF a.type = "insertLeft" /\ b.type = "insertRight" THEN 1
    ELSE 0

RECURSIVE insertionPoint(_, _, _)
\* How many elements of the sorted prefix stay before x: x moves left past every element
\* that compares greater than it.
insertionPoint(sorted, x, j) ==
    IF j >= 1 /\ compareEdits(sorted[j], x) > 0 THEN insertionPoint(sorted, x, j - 1) ELSE j

RECURSIVE sortEdits(_)
\* [...this.edits].sort(...): a stable sort.
sortEdits(es) ==
    IF es = <<>> THEN <<>>
    ELSE LET sorted == sortEdits(SubSeq(es, 1, Len(es) - 1))
             x == es[Len(es)]
             j == insertionPoint(sorted, x, Len(sorted))
         IN SubSeq(sorted, 1, j) \o <<x>> \o SubSeq(sorted, j + 1, Len(sorted))

\* One case of the switch of applyEdits.
applyEdit(result, edit) ==
    IF edit.type = "overwrite"
    THEN Slice(result, 0, edit.pos) \o edit.content \o SliceFrom(result, edit.end)
    ELSE Slice(result, 0, edit.pos) \o edit.content \o SliceFrom(result, edit.pos)

RECURSIVE applySorted(_, _)
\* for (const edit of sortedEdits) { ... }
applySorted(result, sortedEdits) ==
    IF sortedEdits = <<>> THEN result
    ELSE applySorted(applyEdit(result, Head(sortedEdits)), Tail(sortedEdits))

\* toString(): this.applyEdits().result
toString(orig, es) == applySorted(orig, sortEdits(es))

\* The range of an edit: an insert is a zero-width range at its position.
editRange(edit) ==
    IF edit.type = "overwrite"
    THEN [start |-> edit.pos, end |-> edit.end, replacement |-> edit.content]
    ELSE [start |-> edit.pos, end |-> edit.pos, replacement |-> edit.content,
          insertType |-> edit.type]

RECURSIVE sortRanges(_)
\* editRanges.sort((a, b) => a.start - b.start): stable, ascending start.
sortRanges(rs) ==
    IF rs = <<>> THEN <<>>
    ELSE LET sorted == sortRanges(SubSeq(rs, 1, Len(rs) - 1))
             x == rs[Len(rs)]
             k == Cardinality({i \in 1..Len(sorted) : sorted[i].start <= x.start})
         IN SubSeq(sorted, 1, k) \o <<x>> \o SubSeq(sorted, k + 1, Len(sorted))

RECURSIVE mapOriginalToGeneratedFrom(_, _, _, _)
\* for (const range of editRanges) { break | adjustment += ... | return range.start + adjustment }
mapOriginalToGeneratedFrom(origPos, editRanges, k, adjustment) ==
    IF k > Len(editRanges) THEN origPos + adjustment
    ELSE LET range == editRanges[k] IN
         IF range.start > origPos THEN origPos + adjustment
         ELSE IF range.end <= origPos
              THEN mapOriginalToGeneratedFrom(origPos, editRanges, k + 1,
                       adjustment + Len(range.replacement) - (range.end - range.start))
              ELSE range.start + adjustment

\* private mapOriginalToGenerated(origPos, editRanges)
mapOriginalToGenerated(origPos, editRanges) ==
    mapOriginalToGeneratedFrom(origPos, editRanges, 1, 0)

\* private posToLineCol(source, pos) and PositionMapper.positionToLineColumn:
\* source.slice(0, pos).split("\n"), the number of pieces and the length of the last.
posToLineCol(src, p) ==
    LET lines == Split(Slice(src, 0, p), "\n")
    IN [line |-> Len(lines), column |-> Len(lines[Len(lines)])]

RECURSIVE lineMappings(_, _, _, _, _, _)
\* for (let col = 0; col < origLine.length; col++): one mapping per character of the line.
lineMappings(result, editRanges, i, originalPos, origLineLength, col) ==
    IF col >= origLineLength THEN <<>>
    ELSE LET g == posToLineCol(result, mapOriginalToGenerated(originalPos + col, editRanges))
         IN <<[originalLine |-> i + 1, originalColumn |-> col,
               generatedLine |-> g.line, generatedColumn |-> g.column]>>
            \o lineMappings(result, editRanges, i, originalPos, origLineLength, col + 1)

RECURSIVE generateMappingsFrom(_, _, _, _, _)
\* for (let i = 0; i < originalLines.length; i++): the line start, then every column.
generateMappingsFrom(result, editRanges, originalLines, i, originalPos) ==
    IF i >= Len(originalLines) THEN <<>>
    ELSE LET origLine == originalLines[i + 1]
             g == posToLineCol(result, mapOriginalToGenerated(originalPos, editRanges))
         IN <<[originalLine |-> i + 1, originalColumn |-> 0,
               generatedLine |-> g.line, generatedColumn |-> g.column]>>
            \o lineMappings(result, editRanges, i, originalPos, Len(origLine), 0)
            \o generateMappingsFrom(result, editRanges, originalLines, i + 1,
                                    originalPos + Len(origLine) + 1)

\* private generateMappings(result, edits)
generateMappings(orig, result, sortedEdits) ==
    LET editRanges == sortRanges([k \in 1..Len(sortedEdits) |-> editRange(sortedEdits[k])])
    IN generateMappingsFrom(result, editRanges, Split(orig, "\n"), 0, 0)

\* private applyEdits(): { result, mappings }
applyEdits(orig, es) ==
    LET sortedEdits == sortEdits(es)
        result == applySorted(orig, sortedEdits)
    IN [result |-> result, mappings |-> generateMappings(orig, result, sortedEdits)]

\* generateMap() with default options
generateMap(orig, es) ==
    [version |-> 3, sources |-> <<"source.ts">>, names |-> <<>>,
     mappings |-> encodeMappings(applyEdits(orig, es).mappings)]

(***************************************************************************)
(* PositionMapper and the transform cache (position-mapper.ts)             *)
(***************************************************************************)

\* constructor(sourceMap, _filename, originalSource, transformedSource)
PositionMapper(sourceMap, originalSource, transformedSource) ==
    [decodedMappings |-> decodeMappings(sourceMap.mappings),
     originalSource |-> originalSource,
     transformedSource |-> transformedSource]

RECURSIVE lineStartSum(_, _, _)
\* for (let i = 0; i < line - 1 && i < lines.length; i++) pos += lines[i].length + 1
lineStartSum(lines, line, i) ==
    IF i < line - 1 /\ i < Len(lines)
    THEN Len(lines[i + 1]) + 1 + lineStartSum(lines, line, i + 1)
    ELSE 0

\* private lineColumnToPosition(source, line, column)
lineColumnToPosition(src, line, column) == lineStartSum(Split(src, "\n"), line, 0) + column

\* No mapping: null.
NoMapping == [none |-> TRUE]

RECURSIVE lastOnEarlierGeneratedLine(_, _)
\* for (let l = line - 1; l >= 1; l--): the last mapping of the nearest earlier generated
\* line that has one, or null.
lastOnEarlierGeneratedLine(ms, l) ==
    IF l < 1 THEN NoMapping
    ELSE LET prevLineMappings == SelectSeq(ms, LAMBDA m : m.generatedLine = l) IN
         IF prevLineMappings # <<>> THEN prevLineMappings[Len(prevLineMappings)]
         ELSE lastOnEarlierGeneratedLine(ms, l - 1)

RECURSIVE bestGenerated(_, _, _, _)
\* for (const m of lineMappings): the mapping of largest generatedColumn <= column; a
\* later mapping replaces best only when its column is strictly greater.
bestGenerated(lms, column, k, best) ==
    IF k > Len(lms) THEN best
    ELSE LET m == lms[k] IN
         IF m.generatedColumn <= column
            /\ (best = NoMapping \/ m.generatedColumn > best.generatedColumn)
         THEN bestGenerated(lms, column, k + 1, m)
         ELSE bestGenerated(lms, column, k + 1, best)

\* A search that clamps to the first mapping of the table when neither the line nor an
\* earlier line has one.
findMappingForGeneratedClamped(mapper, line, column) ==
    LET ms == mapper.decodedMappings
        lms == SelectSeq(ms, LAMBDA m : m.generatedLine = line) IN
    IF lms = <<>>
    THEN LET found == lastOnEarlierGeneratedLine(ms, line - 1)
         IN IF found = NoMapping /\ ms # <<>> THEN ms[1] ELSE found
    ELSE LET best == bestGenerated(lms, column, 1, NoMapping)
         IN IF best # NoMapping THEN best ELSE lms[1]

\* private findMappingForGenerated(line, column)
findMappingForGenerated(mapper, line, column) ==
    LET ms == mapper.decodedMappings
        lms == SelectSeq(ms, LAMBDA m : m.generatedLine = line) IN
    IF lms = <<>> THEN lastOnEarlierGeneratedLine(ms, line - 1)
    ELSE LET best == bestGenerated(lms, column, 1, NoMapping)
         IN IF best # NoMapping THEN best ELSE lms[1]

RECURSIVE lastOnEarlierOriginalLine(_, _)
\* for (let l = line - 1; l >= 1; l--): the last mapping of the nearest earlier original
\* line that has one, or null.
lastOnEarlierOriginalLine(ms, l) ==
    IF l < 1 THEN NoMapping
    ELSE LET prevLineMappings == SelectSeq(ms, LAMBDA m : m.originalLine = l) IN
         IF prevLineMappings # <<>> THEN prevLineMappings[Len(prevLineMappings)]
         ELSE lastOnEarlierOriginalLine(ms, l - 1)

RECURSIVE bestOriginal(_, _, _, _)
\* for (const m of lineMappings): the mapping of largest originalColumn <= column; a later
\* mapping replaces best only when its column is strictly greater.
bestOriginal(lms, column, k, best) ==
    IF k > Len(lms) THEN best
    ELSE LET m == lms[k] IN
         IF m.originalColumn <= column
            /\ (best = NoMapping \/ m.originalColumn > best.originalColumn)
         THEN bestOriginal(lms, column, k + 1, m)
         ELSE bestOriginal(lms, column, k + 1, best)

\* private findMappingForOriginal(line, column)
findMappingForOriginal(mapper, line, column) ==
    LET ms == mapper.decodedMappings
        lms == SelectSeq(ms, LAMBDA m : m.originalLine = line) IN
    IF lms = <<>> THEN lastOnEarlierOriginalLine(ms, line - 1)
    ELSE LET best == bestOriginal(lms, column, 1, NoMapping)
         IN IF best # NoMapping THEN best ELSE lms[1]

\* originalToTransformed(pos)
originalToTransformed(mapper, p) ==
    LET lc == posToLineCol(mapper.originalSource, p)
        mapping == findMappingForOriginal(mapper, lc.line, lc.column)
    IN IF mapping = NoMapping THEN p
       ELSE lineColumnToPosition(mapper.transformedSource, mapping.generatedLine,
                Max(0, mapping.generatedColumn + (lc.column - mapping.originalColumn)))

\* transformedToOriginal(pos)
transformedToOriginal(mapper, p) ==
    LET lc == posToLineCol(mapper.transformedSource, p)
        mapping == findMappingForGenerated(mapper, lc.line, lc.column)
    IN IF mapping = NoMapping THEN p
       ELSE lineColumnToPosition(mapper.originalSource, mapping.originalLine,
                Max(0, mapping.originalColumn + (lc.column - mapping.generatedColumn)))

\* transformCache.set(fileName, { ... })
cacheEntry(fileName, originalSource, transformedSource, sourceMap) ==
    [originalSource |-> originalSource,
     transformedSource |-> transformedSource,
     sourceMap |-> sourceMap,
     decodedMappings |-> decodeMappings(sourceMap.mappings),
     filename |-> IF sourceMap.sources # <<>> THEN sourceMap.sources[1] ELSE fileName]

\* A delete that removes nothing.
MapDeleteNothing(cache, k) == cache

\* Map.prototype.set / delete on a table held as a function from its keys.
\* A store that keeps no other key.
MapSetAlone(cache, k, v) == [x \in {k} |-> v]

MapSet(cache, k, v) == [x \in DOMAIN cache \cup {k} |-> IF x = k THEN v ELSE cache[x]]
MapDelete(cache, k) == [x \in DOMAIN cache \ {k} |-> cache[x]]
EmptyMap == [x \in {} |-> {}]

\* transformCache.has(fileName)
isTransformedFile(cache, fileName) == fileName \in DOMAIN cache

\* Results that are undefined in the source.
Absent == [absent |-> TRUE]

\* transformCache.get(fileName)
getCachedTransformation(cache, fileName) ==
    IF fileName \in DOMAIN cache THEN cache[fileName] ELSE Absent

\* transformCache.get(fileName)?.originalSource
getOriginalSource(cache, fileName) ==
    IF fileName \in DOMAIN cache THEN cache[fileName].originalSource ELSE Absent

\* transformCache.get(fileName)?.transformedSource
getTransformedSource(cache, fileName) ==
    IF fileName \in DOMAIN cache THEN cache[fileName].transformedSource ELSE Absent

\* getPositionMapper(fileName): a new PositionMapper over the cached entry, or undefined
getPositionMapper(cache, fileName) ==
    IF fileName \notin DOMAIN cache THEN Absent
    ELSE PositionMapper(cache[fileName].sourceMap, cache[fileName].originalSource,
                        cache[fileName].transformedSource)

\* mapTransformedToOriginal(fileName, transformedPosition)
mapTransformedToOriginal(cache, fileName, p) ==
    LET mapper == getPositionMapper(cache, fileName)
    IN IF mapper = Absent THEN p ELSE transformedToOriginal(mapper, p)

\* mapOriginalToTransformed(fileName, originalPosition)
mapOriginalToTransformed(cache, fileName, p) ==
    LET mapper == getPositionMapper(cache, fileName)
    IN IF mapper = Absent THEN p ELSE originalToTransformed(mapper, p)

\* mapTextSpan(fileName, span)
mapTextSpan(cache, fileName, span) ==
    LET mapper == getPositionMapper(cache, fileName) IN
    IF mapper = Absent THEN span
    ELSE LET originalStart == transformedToOriginal(mapper, span.start)
             originalEnd == transformedToOriginal(mapper, span.start + span.length)
         IN [start |-> originalStart, length |-> Max(0, originalEnd - originalStart)]

\* mapTextSpanToTransformed(fileName, span)
mapTextSpanToTransformed(cache, fileName, span) ==
    LET mapper == getPositionMapper(cache, fileName) IN
    IF mapper = Absent THEN span
    ELSE LET transformedStart == originalToTransformed(mapper, span.start)
             transformedEnd == originalToTransformed(mapper, span.start + span.length)
         IN [start |-> transformedStart, length |-> Max(0, transformedEnd - transformedStart)]

\* The body of diagnostics.map(...) in mapDiagnosticPositions, for a diagnostic that has a
\* file, a start and a length.
mapDiagnosticPosition(cache, diagnostic) ==
    LET mapper == getPositionMapper(cache, diagnostic.file) IN
    IF mapper = Absent THEN diagnostic
    ELSE LET originalStart == transformedToOriginal(mapper, diagnostic.start)
             originalLength ==
                 transformedToOriginal(mapper, diagnostic.start + diagnostic.length)
                     - originalStart
         IN [file |-> diagnostic.file, start |-> originalStart, length |-> originalLength]

(***************************************************************************)
(* isInsideNestedFunction and transformBlockContent                        *)
(***************************************************************************)

\* t.type === "Punctuator" && t.value === v
isPunctuatorToken(t, v) == t.type = "Punctuator" /\ t.value = v

FunctionKeyword == <<"f", "u", "n", "c", "t", "i", "o", "n">>

\* for (let j = i + 1; j < upToIndex; j++) if (tokens[j] is "{") { functionDepth++; break }
functionBodyFollows(toks, i, upToIndex) ==
    \E j \in (i + 1)..(upToIndex - 1) : isPunctuatorToken(toks[j + 1], <<"{">>)

RECURSIVE arrowBodyFollows(_, _, _)
\* for (let j = i + 1; j < upToIndex; j++): "{" counts, whitespace and line terminators
\* are skipped, anything else ends the look-ahead.
arrowBodyFollows(toks, j, upToIndex) ==
    IF j >= upToIndex THEN FALSE
    ELSE LET next == toks[j + 1] IN
         IF isPunctuatorToken(next, <<"{">>) THEN TRUE
         ELSE IF next.type \notin {"WhiteSpace", "LineTerminatorSequence"} THEN FALSE
         ELSE arrowBodyFollows(toks, j + 1, upToIndex)

RECURSIVE functionDepthAfter(_, _, _, _)
\* The body of for (let i = 0; i < upToIndex; i++): the three checks, in order.
functionDepthAfter(toks, i, upToIndex, functionDepth) ==
    IF i >= upToIndex THEN functionDepth
    ELSE LET t == toks[i + 1]
             afterFunction ==
                 IF /\ t.type = "IdentifierName"
                    /\ t.value = FunctionKeyword
                    /\ functionBodyFollows(toks, i, upToIndex)
                 THEN functionDepth + 1 ELSE functionDepth
             afterArrow ==
                 IF isPunctuatorToken(t, <<"=", ">">>) /\ arrowBodyFollows(toks, i + 1, upToIndex)
                 THEN afterFunction + 1 ELSE afterFunction
             afterClose ==
                 IF isPunctuatorToken(t, <<"}">>) /\ afterArrow > 0
                 THEN afterArrow - 1 ELSE afterArrow
         IN functionDepthAfter(toks, i + 1, upToIndex, afterClose)

\* function isInsideNestedFunction(tokens, upToIndex)
isInsideNestedFunction(toks, upToIndex) == functionDepthAfter(toks, 0, upToIndex, 0) > 0

\* s.trimStart(), s.trimEnd(), s.trim()
trimStart(s) == SliceFrom(s, skipSpace(s, 0))
RECURSIVE trimEnd(_)
trimEnd(s) ==
    IF s # <<>> /\ isSpaceChar(s[Len(s)]) THEN trimEnd(SubSeq(s, 1, Len(s) - 1)) ELSE s
trim(s) == trimEnd(trimStart(s))

\* s.startsWith(prefix), s.endsWith(suffix)
startsWith(s, prefix) == Slice(s, 0, Len(prefix)) = prefix
endsWith(s, suffix) == Len(s) >= Len(suffix) /\ SliceFrom(s, Len(s) - Len(suffix)) = suffix

\* line.match(/^\s*/)[0]
leadingWhiteSpace(line) == Slice(line, 0, skipSpace(line, 0))

\* tokens.findIndex((t) => t.start >= lineStart && t.start < lineEnd), -1 when none
firstTokenIndex(toks, lineStart, lineEnd) ==
    LET hits == {i \in 0..(Len(toks) - 1) :
                     toks[i + 1].start >= lineStart /\ toks[i + 1].start < lineEnd}
    IN IF hits = {} THEN -1 ELSE CHOOSE i \in hits : \A k \in hits : i <= k

WordChars == Letters \cup Digits \cup {"_"}
SpaceChars == {" ", "\t", "\n", "\r"}

RECURSIVE classRunEnd(_, _, _)
\* Where a greedy run [class]* that starts at p ends.
classRunEnd(s, p, class) ==
    IF p < Len(s) /\ At(s, p) \in class THEN classRunEnd(s, p + 1, class) ELSE p

\* Where the group (\w+|\[[\w\s,]+\]|\{[\w\s,:]+\}) ends when matched at 0; -1 without a
\* match. The three alternatives start with different characters, and none of the classes
\* holds the character that must follow the run, so the greedy run is the only candidate.
bindTargetEnd(s) ==
    IF At(s, 0) \in WordChars THEN classRunEnd(s, 0, WordChars)
    ELSE IF At(s, 0) = "["
    THEN LET e == classRunEnd(s, 1, WordChars \cup SpaceChars \cup {","})
         IN IF e > 1 /\ At(s, e) = "]" THEN e + 1 ELSE -1
    ELSE IF At(s, 0) = "{"
    THEN LET e == classRunEnd(s, 1, WordChars \cup SpaceChars \cup {",", ":"})
         IN IF e > 1 /\ At(s, e) = "}" THEN e + 1 ELSE -1
    ELSE -1

\* . of a regular expression without the s flag: any character but a line terminator
hasNoLineTerminator(s) == \A k \in 1..Len(s) : s[k] \notin {"\n", "\r"}

\* A failed match (null).
NoMatch == [matched |-> FALSE]

\* trimmed.match(/^(\w+|\[[\w\s,]+\]|\{[\w\s,:]+\})\s*<-\s*(.+)$/): the groups varName and
\* exprWithSemi. The \s* after the arrow takes as much white space as leaves (.+) a
\* non-empty rest without line terminators.
bindMatch(trimmed) ==
    LET targetEnd == bindTargetEnd(trimmed)
        arrow == skipSpace(trimmed, targetEnd)
        exprStarts == {e \in (arrow + 2)..skipSpace(trimmed, arrow + 2) :
                           /\ SliceFrom(trimmed, e) # <<>>
                           /\ hasNoLineTerminator(SliceFrom(trimmed, e))}
    IN IF targetEnd >= 0 /\ Slice(trimmed, arrow, arrow + 2) = <<"<", "-">> /\ exprStarts # {}
       THEN [matched |-> TRUE,
             varName |-> Slice(trimmed, 0, targetEnd),
             exprWithSemi |->
                 SliceFrom(trimmed, CHOOSE e \in exprStarts : \A k \in exprStarts : k <= e)]
       ELSE NoMatch

\* exprWithSemi.replace(/;?\s*$/, ""): the leftmost match is the trailing white space
\* together with one semicolon in front of it.
stripSemicolon(exprWithSemi) ==
    LET w == Len(trimEnd(exprWithSemi))
    IN Slice(exprWithSemi, 0, IF At(exprWithSemi, w - 1) = ";" THEN w - 1 ELSE w)

ConstKeyword == <<"c", "o", "n", "s", "t", " ">>
YieldStar == <<" ", "=", " ", "y", "i", "e", "l", "d", "*", " ">>

\* The template string pushed for a matched line.
bindOutput(line, varName, exprWithSemi) ==
    leadingWhiteSpace(line) \o ConstKeyword \o varName \o YieldStar
        \o stripSemicolon(exprWithSemi)
        \o (IF endsWith(trimEnd(exprWithSemi), <<";">>) THEN <<";">> ELSE <<>>)

\* The body of for (const line of lines): the line pushed to outputLines.
transformLine(toks, line, lineStart) ==
    LET lineEnd == lineStart + Len(line)
        trimmed == trim(line)
        first == firstTokenIndex(toks, lineStart, lineEnd)
        insideNestedFunction == IF first >= 0 THEN isInsideNestedFunction(toks, first) ELSE FALSE
        m == bindMatch(trimmed)
    IN IF trimmed = <<>> \/ startsWith(trimmed, <<"/", "/">>) THEN line
       ELSE IF ~insideNestedFunction /\ m.matched
            THEN bindOutput(line, m.varName, m.exprWithSemi)
            ELSE line

RECURSIVE transformLines(_, _, _, _, _)
\* The loop over the lines: lineStart = lineEnd + 1 after each of them.
transformLines(toks, lines, k, lineStart, outputLines) ==
    IF k > Len(lines) THEN outputLines
    ELSE transformLines(toks, lines, k + 1, lineStart + Len(lines[k]) + 1,
                        Append(outputLines, transformLine(toks, lines[k], lineStart)))

\* function transformBlockContent(content)
transformBlockContent(content) ==
    Join(transformLines(tokenize(content), Split(content, "\n"), 1, 0, <<>>), <<"\n">>)

(***************************************************************************)
(* The scan loop of tokenize, one iteration per step                       *)
(***************************************************************************)

\* Bounds of the scanner inputs.
MaxTokLen == 4

\* Quotes, escapes, templates and comments; and blanks, terminators, numbers, operators.
TokAlphabetA == {"\"", "\\", Backtick, "$", "{", "}", "/", "*", "a"}
TokAlphabetB == {" ", "\n", "\r", "1", ".", "e", "+", "n", "<", "-"}

TokInputs == StringsOver(TokAlphabetA, MaxTokLen) \cup StringsOver(TokAlphabetB, MaxTokLen)

IdleEdit == original = <<>> /\ edits = <<>>
IdleCache == transformCache = <<>> /\ stored = <<>> /\ call = <<>> /\ ret = <<>>
IdleCodec == table = <<>> /\ encoded = <<>> /\ decoded = <<>>

InitTok ==
    /\ source \in TokInputs
    /\ pos = 0
    /\ tokens = <<>>
    /\ blocks = <<>>
    /\ output = <<>>
    /\ pc = "tokenize"
    /\ IdleEdit /\ IdleCache /\ IdleCodec

\* One iteration of while (pos < source.length) { ... }
TokenizeStep ==
    /\ pc = "tokenize"
    /\ pos < Len(source)
    /\ tokens' = Append(tokens, tokenAt(source, pos))
    /\ pos' = tokenAt(source, pos).end
    /\ UNCHANGED <<source, blocks, output, pc, editVars, cacheVars, codecVars>>

\* return tokens
TokenizeReturn ==
    /\ pc = "tokenize"
    /\ pos >= Len(source)
    /\ pc' = "tokenized"
    /\ UNCHANGED <<source, pos, tokens, blocks, output, editVars, cacheVars, codecVars>>

NextTok == TokenizeStep \/ TokenizeReturn

SpecTok == InitTok /\ [][NextTok]_vars

\* C1: for every input s, the values of the tokens tokenize(s) returns, concatenated in
\* order, are exactly s (unterminated quotes, templates, block comments and a trailing
\* backslash included).
C1_Reconstruction == pc = "tokenized" => TokenText(tokens) = source

\* tokenize has returned for a string literal that ends in a backslash and no closing quote.
C1_Witness ==
    /\ pc = "tokenized"
    /\ Len(source) >= 2
    /\ source[1] = "\""
    /\ source[Len(source)] = "\\"
    /\ Len(tokens) = 1
    /\ tokens[1].end > Len(source)

\* The scan loop under its scheduling: the loop runs on until its condition fails.
SpecTokLive == InitTok /\ [][NextTok]_vars /\ WF_vars(NextTok)

\* C11: every iteration of the scan loop advances pos by at least one character, and the
\* scan of every input reaches the end of the input and returns its token list.
C11_Terminates ==
    /\ [][TokenizeStep => pos' > pos]_vars
    /\ <>(pc = "tokenized")

\* tokenize has returned for a template literal whose embedded expression is never closed.
C11_Witness ==
    /\ pc = "tokenized"
    /\ Len(source) >= 3
    /\ source[1] = Backtick /\ source[2] = "$" /\ source[3] = "{"
    /\ Len(tokens) = 1
    /\ tokens[1].type = "TemplateLiteral"

\* C12: the tokens tile the source by offset: the first starts at 0, each starts where the
\* previous one ends, each has start < end and value = source[start, end), and the last
\* ends at the length of the source, never beyond it.
C12_Tiling ==
    pc = "tokenized" =>
        /\ tokens # <<>> => tokens[1].start = 0 /\ tokens[Len(tokens)].end = Len(source)
        /\ \A k \in 1..Len(tokens) :
               /\ tokens[k].start < tokens[k].end
               /\ tokens[k].value = Slice(source, tokens[k].start, tokens[k].end)
               /\ k > 1 => tokens[k].start = tokens[k - 1].end

(***************************************************************************)
(* findGenBlocks as a call                                                 *)
(***************************************************************************)

\* Bound of the block finder's inputs: the number of fragments of a source.
MaxGenFrags == 6

\* The last fragment is a block comment that holds a closing brace.
GenFragments ==
    {<<"g", "e", "n">>, <<"{">>, <<"}">>, <<" ">>, <<"a">>, <<"/", "*", "}", "*", "/">>}

\* "gen { a; gen { b } c }"
NestedExample ==
    <<"g", "e", "n", " ", "{", " ", "a", ";", " ", "g", "e", "n", " ", "{", " ", "b", " ", "}",
      " ", "c", " ", "}">>

GenInputs == {Flatten(fs) : fs \in StringsOver(GenFragments, MaxGenFrags)} \cup {NestedExample}

InitBlocks ==
    /\ source \in GenInputs
    /\ pos = 0
    /\ tokens = <<>>
    /\ blocks = <<>>
    /\ output = <<>>
    /\ pc = "findGenBlocks"
    /\ IdleEdit /\ IdleCache /\ IdleCodec

\* if (!hasGenBlocks(source)) return []
FindGenBlocksFastPath ==
    /\ pc = "findGenBlocks"
    /\ ~hasGenBlocks(source)
    /\ blocks' = <<>>
    /\ pc' = "found"
    /\ UNCHANGED <<source, pos, tokens, output, editVars, cacheVars, codecVars>>

\* tokenize, scan every token, return blocks
FindGenBlocksScan ==
    /\ pc = "findGenBlocks"
    /\ hasGenBlocks(source)
    /\ tokens' = tokenize(source)
    /\ blocks' = findGenBlocks(source)
    /\ pc' = "found"
    /\ UNCHANGED <<source, pos, output, editVars, cacheVars, codecVars>>

NextBlocks == FindGenBlocksFastPath \/ FindGenBlocksScan

SpecBlocks == InitBlocks /\ [][NextBlocks]_vars

\* Block a lies inside the braces of block b.
InsideBraces(a, b) == b.braceStart < a.start /\ a.end < b.end

\* C2: findGenBlocks never reports a gen block that lies inside the braces of another
\* reported block; for "gen { a; gen { b } c }" the result is exactly one block, whose
\* content is " a; gen { b } c ".
C2_NoNestedBlock ==
    pc = "found" =>
        /\ \A x, y \in 1..Len(blocks) : ~InsideBraces(blocks[x], blocks[y])
        /\ source = NestedExample =>
               /\ Len(blocks) = 1
               /\ blocks[1].content = SubSeq(NestedExample, 6, 21)

\* Token i (0-based) of toks is the identifier gen, and the next token that is neither
\* white space nor a line terminator nor a comment is an opening brace.
IsGenCandidate(toks, i) ==
    /\ toks[i + 1].type = "IdentifierName"
    /\ toks[i + 1].value = <<"g", "e", "n">>
    /\ \E j \in (i + 1)..(Len(toks) - 1) :
          /\ toks[j + 1].type = "Punctuator" /\ toks[j + 1].value = <<"{">>
          /\ \A m \in (i + 1)..(j - 1) : toks[m + 1].type \in InsignificantTypes

\* The offset of the opening brace of candidate i.
CandidateBrace(toks, i) ==
    toks[(CHOOSE j \in (i + 1)..(Len(toks) - 1) :
              toks[j + 1].type \notin InsignificantTypes) + 1].start

\* Opening minus closing brace punctuators among the tokens that start in [from, upTo].
BraceDepth(toks, from, upTo) ==
    Cardinality({k \in 1..Len(toks) : /\ toks[k].type = "Punctuator" /\ toks[k].value = <<"{">>
                                      /\ from <= toks[k].start /\ toks[k].start <= upTo})
  - Cardinality({k \in 1..Len(toks) : /\ toks[k].type = "Punctuator" /\ toks[k].value = <<"}">>
                                      /\ from <= toks[k].start /\ toks[k].start <= upTo})

\* The brace punctuator at offset q closes the one at offset from: the depth is 0 there
\* for the first time.
Balances(toks, from, q) ==
    /\ from < q
    /\ \E k \in 1..Len(toks) :
          toks[k].type = "Punctuator" /\ toks[k].value = <<"}">> /\ toks[k].start = q
    /\ BraceDepth(toks, from, q) = 0
    /\ \A k \in 1..Len(toks) :
          (from <= toks[k].start /\ toks[k].start < q) => BraceDepth(toks, from, toks[k].start) > 0

\* C13: findGenBlocks reports a block for every identifier token gen whose next
\* significant token, after white space, line terminators and comments, is an opening
\* brace that has a balancing closing brace; a comment between gen and the brace does not
\* lose the block.
C13_EveryCandidateReported ==
    pc = "found" =>
        LET toks == tokenize(source) IN
        \A i \in 0..(Len(toks) - 1) :
            (/\ IsGenCandidate(toks, i)
             /\ \E q \in 0..(Len(source) - 1) : Balances(toks, CandidateBrace(toks, i), q))
                => \E b \in 1..Len(blocks) :
                       /\ blocks[b].start = toks[i + 1].start
                       /\ blocks[b].braceStart = CandidateBrace(toks, i)

\* C14: every reported block has start <= braceStart < end <= source.length, an opening
\* brace at braceStart, at end - 1 the closing brace that brings the depth back to 0
\* counting brace punctuator tokens only, and content = source[braceStart + 1, end - 1);
\* a candidate whose brace never balances yields no block.
C14_BlockShape ==
    pc = "found" =>
        LET toks == tokenize(source) IN
        \A b \in 1..Len(blocks) :
            LET block == blocks[b] IN
            /\ block.start <= block.braceStart
            /\ block.braceStart < block.end
            /\ block.end <= Len(source)
            /\ At(source, block.braceStart) = "{"
            /\ At(source, block.end - 1) = "}"
            /\ Balances(toks, block.braceStart, block.end - 1)
            /\ block.content = Slice(source, block.braceStart + 1, block.end - 1)
            /\ \E i \in 0..(Len(toks) - 1) :
                  /\ IsGenCandidate(toks, i)
                  /\ toks[i + 1].start = block.start
                  /\ CandidateBrace(toks, i) = block.braceStart

\* A block was found whose braces hold a block comment with a closing brace in it and a
\* nested pair of braces.
C14_Witness ==
    /\ pc = "found"
    /\ Len(blocks) = 1
    /\ \E p \in 0..Len(source) :
          /\ blocks[1].braceStart < p
          /\ p < blocks[1].end
          /\ Slice(source, p, p + 5) = <<"/", "*", "}", "*", "/">>
    /\ \E p \in 0..Len(source) :
          /\ blocks[1].braceStart < p
          /\ p < blocks[1].end - 1
          /\ Slice(source, p, p + 2) = <<"{", "}">>

(***************************************************************************)
(* The codec as calls: encodeMappings, then decodeMappings of its result   *)
(***************************************************************************)

\* Bound of the codec's inputs: the number of entries of a table.
MaxTable == 3

\* Entries with small and large columns (one, two and three VLQ digits) on lines 1..3.
TableEntries ==
    [generatedLine : {1, 3}, generatedColumn : {0, 17},
     originalLine : {1, 2}, originalColumn : {0, 600}]

InitCodec ==
    /\ table \in StringsOver(TableEntries, MaxTable)
    /\ encoded = <<>>
    /\ decoded = <<>>
    /\ pc = "encode"
    /\ source = <<>> /\ pos = 0 /\ tokens = <<>> /\ blocks = <<>> /\ output = <<>>
    /\ IdleEdit /\ IdleCache

EncodeMappings ==
    /\ pc = "encode"
    /\ encoded' = encodeMappings(table)
    /\ pc' = "encoded"
    /\ UNCHANGED <<table, decoded, source, pos, tokens, blocks, output, editVars, cacheVars>>

DecodeMappings ==
    /\ pc = "encoded"
    /\ decoded' = decodeMappings(encoded)
    /\ pc' = "decoded"
    /\ UNCHANGED <<table, encoded, source, pos, tokens, blocks, output, editVars, cacheVars>>

NextCodec == EncodeMappings \/ DecodeMappings

SpecCodec == InitCodec /\ [][NextCodec]_vars

\* Decoded mapping d carries the four values of table entry e.
SamePair(d, e) ==
    /\ d.generatedLine = e.generatedLine
    /\ d.generatedColumn = e.generatedColumn
    /\ d.originalLine = e.originalLine
    /\ d.originalColumn = e.originalColumn

SameGenerated(a, b) ==
    a.generatedLine = b.generatedLine /\ a.generatedColumn = b.generatedColumn

\* C4 as stated: decodeMappings(encodeMappings(table)) holds, for every entry of table, a
\* mapping with the same generated and original line and column, also when two entries
\* share a generated position.
C4_RoundTripEveryEntry ==
    pc = "decoded" =>
        \A i \in 1..Len(table) : \E k \in 1..Len(decoded) : SamePair(decoded[k], table[i])

\* C4 amended: the round trip reproduces every entry that is the first of the table with its
\* generated position (entries that repeat a generated position are dropped by the
\* encoder), and decodes exactly one mapping for each generated position of the table.
C4_RoundTripFirstEntries ==
    pc = "decoded" =>
        /\ \A i \in 1..Len(table) :
              (\A j \in 1..(i - 1) : ~SameGenerated(table[j], table[i]))
                  => \E k \in 1..Len(decoded) : SamePair(decoded[k], table[i])
        /\ \A k \in 1..Len(decoded) : \E i \in 1..Len(table) : SamePair(decoded[k], table[i])
        /\ \A k, l \in 1..Len(decoded) : SameGenerated(decoded[k], decoded[l]) => k = l

\* A decoded table of two entries that share a generated position, with a three-digit
\* column, a negative delta and a generated line without entries before them.
C4_Witness ==
    /\ pc = "decoded"
    /\ Len(table) = 3
    /\ SameGenerated(table[1], table[2])
    /\ table[1].originalColumn = 600 /\ table[2].originalColumn = 0
    /\ table[1].generatedLine = 3
    /\ table[3].generatedLine = 1 /\ table[3].originalColumn = 600 /\ table[3].originalLine = 2
    /\ Len(decoded) = 2

(***************************************************************************)
(* A TextEditor accumulating edits, then cached with its map               *)
(***************************************************************************)

\* Bound of the editor: the number of edits registered.
MaxEdits == 2

\* One-line and two-line buffers of distinct characters.
Originals == {<<"a", "b", "c", "d">>, <<"a", "\n", "b", "c">>}
OverwriteContents == {<<>>, <<"X">>}
EditFile == "a.ts"

\* Overwrite ranges [start, end) of the buffer that overlap none already registered.
FreeRanges(orig, es) ==
    {r \in (0..Len(orig)) \X (0..Len(orig)) :
        /\ r[1] < r[2]
        /\ \A k \in 1..Len(es) :
              es[k].type = "overwrite" => (r[2] <= es[k].pos \/ es[k].end <= r[1])}

InitEdit ==
    /\ original \in Originals
    /\ edits = <<>>
    /\ transformCache = EmptyMap
    /\ pc = "editing"
    /\ stored = <<>> /\ call = <<>> /\ ret = <<>>
    /\ source = <<>> /\ pos = 0 /\ tokens = <<>> /\ blocks = <<>> /\ output = <<>>
    /\ IdleCodec

\* overwrite(start, end, content)
Overwrite ==
    /\ pc = "editing"
    /\ Len(edits) < MaxEdits
    /\ \E r \in FreeRanges(original, edits), content \in OverwriteContents :
           edits' = Append(edits, overwriteEdit(r[1], r[2], content))
    /\ UNCHANGED <<original, transformCache, pc, stored, call, ret,
                   source, pos, tokens, blocks, output, codecVars>>

\* appendLeft(pos, content)
AppendLeft ==
    /\ pc = "editing"
    /\ Len(edits) < MaxEdits
    /\ \E p \in 0..Len(original) : edits' = Append(edits, appendLeftEdit(p, <<"L">>))
    /\ UNCHANGED <<original, transformCache, pc, stored, call, ret,
                   source, pos, tokens, blocks, output, codecVars>>

\* appendRight(pos, content)
AppendRight ==
    /\ pc = "editing"
    /\ Len(edits) < MaxEdits
    /\ \E p \in 0..Len(original) : edits' = Append(edits, appendRightEdit(p, <<"R">>))
    /\ UNCHANGED <<original, transformCache, pc, stored, call, ret,
                   source, pos, tokens, blocks, output, codecVars>>

\* cacheTransformation(EditFile, original, editor.toString(), editor.generateMap())
CacheEditorOutput ==
    /\ pc = "editing"
    /\ transformCache' = MapSet(transformCache, EditFile,
                                cacheEntry(EditFile, original, toString(original, edits),
                                           generateMap(original, edits)))
    /\ pc' = "cached"
    /\ UNCHANGED <<original, edits, stored, call, ret,
                   source, pos, tokens, blocks, output, codecVars>>

NextEdit == Overwrite \/ AppendLeft \/ AppendRight \/ CacheEditorOutput

SpecEdit == InitEdit /\ [][NextEdit]_vars

\* C3: for a file cached with the map TextEditor.generateMap produced, p1 < p2 within the
\* original text implies originalToTransformed(p1) <= originalToTransformed(p2).
C3_Monotonic ==
    pc = "cached" =>
        \A p1, p2 \in 0..(Len(original) - 1) :
            p1 < p2 => mapOriginalToTransformed(transformCache, EditFile, p1)
                         <= mapOriginalToTransformed(transformCache, EditFile, p2)

\* The edit lists that hold the same edits as es, in every call order.
CallOrders(es) ==
    {[k \in 1..Len(es) |-> es[f[k]]] :
        f \in {g \in [1..Len(es) -> 1..Len(es)] : \A a, b \in 1..Len(es) : g[a] = g[b] => a = b}}

RECURSIVE Materialized(_, _, _)
\* The original from offset p on, with each overwritten range replaced by its content and
\* each insert placed at its position (appendLeft text before appendRight text).
Materialized(orig, es, p) ==
    LET insertsAt(type) ==
            Flatten([k \in 1..Len(SelectSeq(es, LAMBDA e : e.type = type /\ e.pos = p)) |->
                        SelectSeq(es, LAMBDA e : e.type = type /\ e.pos = p)[k].content])
        over == SelectSeq(es, LAMBDA e : e.type = "overwrite" /\ e.pos = p)
        here == insertsAt("insertLeft") \o insertsAt("insertRight")
    IN IF p >= Len(orig) THEN here
       ELSE IF over # <<>>
            THEN here \o over[1].content \o Materialized(orig, es, over[1].end)
            ELSE here \o <<orig[p + 1]>> \o Materialized(orig, es, p + 1)

\* No insert lies strictly inside an overwritten range.
NoInsertInsideOverwrite(es) ==
    \A i, k \in 1..Len(es) :
        (es[i].type # "overwrite" /\ es[k].type = "overwrite")
            => ~(es[k].pos < es[i].pos /\ es[i].pos < es[k].end)

\* C9: for edits whose overwrite ranges do not overlap, toString() returns the same text
\* for every order of the overwrite / appendLeft / appendRight calls, and that text is the
\* original with each range replaced by its content and each insert placed at its position.
C9_OrderIndependent ==
    pc = "editing" =>
        /\ \A es \in CallOrders(edits) : toString(original, es) = toString(original, edits)
        /\ NoInsertInsideOverwrite(edits)
               => toString(original, edits) = Materialized(original, edits, 0)

\* C15: for an appendLeft(p, L) and an appendRight(p, R) at the same position, in either
\* call order, the insertRight edit is applied ahead of the insertLeft edit, and toString()
\* of the two is original[0, p) + L + R + original[p, ...). No overwrite starts at p: the
\* comparator does not order an overwrite against an insert at its position.
C15_RightAheadOfLeft ==
    pc = "editing" =>
        \A i, k \in 1..Len(edits) :
            (/\ edits[i].type = "insertLeft"
             /\ edits[k].type = "insertRight"
             /\ edits[i].pos = edits[k].pos
             /\ \A o \in 1..Len(edits) :
                   edits[o].type = "overwrite" => edits[o].pos # edits[i].pos)
                => LET sorted == sortEdits(edits) IN
                   /\ \E a, b \in 1..Len(sorted) :
                         a < b /\ sorted[a] = edits[k] /\ sorted[b] = edits[i]
                   /\ Len(edits) = 2 =>
                         toString(original, edits)
                             = Slice(original, 0, edits[i].pos) \o edits[i].content
                                   \o edits[k].content \o SliceFrom(original, edits[i].pos)

\* appendLeft was called before appendRight at the same position inside the text, so the
\* sort has to exchange the two.
C15_Witness ==
    /\ pc = "editing"
    /\ Len(edits) = 2
    /\ edits[1].type = "insertLeft"
    /\ edits[2].type = "insertRight"
    /\ edits[1].pos = edits[2].pos
    /\ edits[1].pos > 0
    /\ edits[1].pos < Len(original)

\* No insert touches an overwritten range: none lies inside it or at one of its ends.
InsertsClearOfOverwrites(es) ==
    \A i, k \in 1..Len(es) :
        (es[i].type # "overwrite" /\ es[k].type = "overwrite")
            => (es[i].pos < es[k].pos \/ es[k].end < es[i].pos)

\* Offset p of the original lies outside every overwritten range.
OutsideOverwrites(es, p) ==
    \A k \in 1..Len(es) : es[k].type = "overwrite" => (p < es[k].pos \/ es[k].end <= p)

\* C19: for non-overlapping edits, the mapper built from generateMap() and toString() maps
\* every original offset p outside the overwritten ranges to the offset of the same
\* character in the transformed text, toString()[originalToTransformed(p)] = s[p], and
\* transformedToOriginal(originalToTransformed(p)) = p.
C19_ExactCorrespondence ==
    (pc = "cached" /\ InsertsClearOfOverwrites(edits)) =>
        \A p \in 0..(Len(original) - 1) :
            OutsideOverwrites(edits, p) =>
                LET q == mapOriginalToTransformed(transformCache, EditFile, p) IN
                /\ At(toString(original, edits), q) = At(original, p)
                /\ mapTransformedToOriginal(transformCache, EditFile, q) = p

\* C19 for a single deletion: one overwrite with an empty replacement and nothing else.
C19_SingleDeletion ==
    (/\ pc = "cached"
     /\ Len(edits) = 1
     /\ edits[1].type = "overwrite"
     /\ edits[1].content = <<>>) => C19_ExactCorrespondence

\* C19 for inserts alone: no overwrite among the edits.
C19_InsertsOnly ==
    (pc = "cached" /\ \A k \in 1..Len(edits) : edits[k].type # "overwrite")
        => C19_ExactCorrespondence

(***************************************************************************)
(* The transform cache under store / delete / clear-all calls              *)
(***************************************************************************)

\* Bound of the cache's inputs: the number of fragments of a mappings string.
MaxMapFrags == 2
\* Bounds of the queries: the largest offset and the largest span length asked for.
MaxOffset == 5
MaxSpanLen == 2

FileNames == {"a.ts", "b.ts"}

\* The segments [+0, 0, +0, +0], [+0, 0, +1, +0] and [+2, 0, +0, +1] (generated column,
\* source, original line, original column), and the line separator; a comma joins two
\* segments that follow each other.
MapFragments == {<<"A", "A", "A", "A">>, <<"A", "A", "C", "A">>, <<"E", "A", "A", "C">>, <<";">>}

RECURSIVE JoinFragments(_)
JoinFragments(fs) ==
    IF fs = <<>> THEN <<>>
    ELSE IF Len(fs) = 1 THEN fs[1]
    ELSE IF fs[1] # <<";">> /\ fs[2] # <<";">> THEN fs[1] \o <<",">> \o JoinFragments(Tail(fs))
    ELSE fs[1] \o JoinFragments(Tail(fs))

SampleMappings == {JoinFragments(fs) : fs \in StringsOver(MapFragments, MaxMapFrags)}

\* The maps a file is stored with: any sample for a.ts; b.ts, the second key, is a file
\* whose map is empty.
MappingsOf(f) == IF f = "a.ts" THEN SampleMappings ELSE {<<>>}

\* Original and transformed texts of two lines.
SampleTexts ==
    {[originalSource |-> <<"a", "b", "\n", "c">>, transformedSource |-> <<"a", "X", "b", "\n", "c">>],
     [originalSource |-> <<"a", "\n", "b">>, transformedSource |-> <<"a", "\n", "\n", "b">>]}

SampleSourceMap(mappings) ==
    [version |-> 3, sources |-> <<"source.ts">>, names |-> <<>>, mappings |-> mappings]

InitCache ==
    /\ transformCache = EmptyMap
    /\ stored = <<>>
    /\ call = [op |-> "none"]
    /\ ret = Absent
    /\ pc = "cache"
    /\ source = <<>> /\ pos = 0 /\ tokens = <<>> /\ blocks = <<>> /\ output = <<>>
    /\ IdleEdit /\ IdleCodec

\* cacheTransformation(fileName, originalSource, transformedSource, sourceMap)
cacheTransformation(fileName, originalSource, transformedSource, sourceMap) ==
    /\ transformCache' = MapSet(transformCache, fileName,
                                cacheEntry(fileName, originalSource, transformedSource, sourceMap))
    /\ ret' = PositionMapper(sourceMap, originalSource, transformedSource)
    /\ stored' = [x \in DOMAIN stored \cup {fileName} |->
                      IF x = fileName
                      THEN [originalSource |-> originalSource,
                            transformedSource |-> transformedSource]
                      ELSE stored[x]]
    /\ call' = [op |-> "cacheTransformation", fileName |-> fileName,
                existed |-> fileName \in DOMAIN transformCache]

CacheTransformation ==
    /\ pc = "cache"
    /\ \E f \in FileNames, t \in SampleTexts :
         \E m \in MappingsOf(f) :
           cacheTransformation(f, t.originalSource, t.transformedSource, SampleSourceMap(m))
    /\ UNCHANGED <<pc, source, pos, tokens, blocks, output, editVars, codecVars>>

\* clearCachedTransformation(fileName)
ClearCachedTransformation ==
    /\ pc = "cache"
    /\ \E f \in FileNames :
           /\ transformCache' = MapDelete(transformCache, f)
           /\ stored' = [x \in {g \in DOMAIN stored : g # f} |-> stored[x]]
           /\ call' = [op |-> "clearCachedTransformation", fileName |-> f,
                       existed |-> f \in DOMAIN transformCache]
    /\ ret' = Absent
    /\ UNCHANGED <<pc, source, pos, tokens, blocks, output, editVars, codecVars>>

\* clearAllCachedTransformations()
ClearAllCachedTransformations ==
    /\ pc = "cache"
    /\ transformCache' = EmptyMap
    /\ stored' = <<>>
    /\ call' = [op |-> "clearAllCachedTransformations",
                existed |-> DOMAIN transformCache # {}]
    /\ ret' = Absent
    /\ UNCHANGED <<pc, source, pos, tokens, blocks, output, editVars, codecVars>>

NextCache == CacheTransformation \/ ClearCachedTransformation \/ ClearAllCachedTransformations

SpecCache == InitCache /\ [][NextCache]_vars

\* C5: for every key f, the lookups report the texts of the latest cacheTransformation(f, ...)
\* iff that store was not followed by clearCachedTransformation(f) or
\* clearAllCachedTransformations(); otherwise each reports absent.
C5_CacheLifecycle ==
    \A f \in FileNames :
        IF f \in DOMAIN stored
        THEN /\ isTransformedFile(transformCache, f)
             /\ getOriginalSource(transformCache, f) = stored[f].originalSource
             /\ getTransformedSource(transformCache, f) = stored[f].transformedSource
             /\ getCachedTransformation(transformCache, f).originalSource = stored[f].originalSource
             /\ getCachedTransformation(transformCache, f).transformedSource
                    = stored[f].transformedSource
             /\ getPositionMapper(transformCache, f).originalSource = stored[f].originalSource
             /\ getPositionMapper(transformCache, f).transformedSource
                    = stored[f].transformedSource
        ELSE /\ ~isTransformedFile(transformCache, f)
             /\ getOriginalSource(transformCache, f) = Absent
             /\ getTransformedSource(transformCache, f) = Absent
             /\ getCachedTransformation(transformCache, f) = Absent
             /\ getPositionMapper(transformCache, f) = Absent

\* An entry of a.ts has just been deleted while b.ts, stored earlier, is still present.
C5_Witness ==
    /\ call.op = "clearCachedTransformation"
    /\ call.fileName = "a.ts"
    /\ call.existed
    /\ ~isTransformedFile(transformCache, "a.ts")
    /\ isTransformedFile(transformCache, "b.ts")

\* The line of offset p in a text: one more than the line feeds before p.
LineOfOffset(text, p) == 1 + Cardinality({i \in 1..Min(p, Len(text)) : text[i] = "\n"})

\* The cache holds no entry for f, or no decoded mapping of the entry lies on the generated
\* (original) line of offset p of the transformed (original) text or on an earlier line.
NoGeneratedMapping(f, p) ==
    f \in DOMAIN transformCache =>
        \A k \in 1..Len(transformCache[f].decodedMappings) :
            transformCache[f].decodedMappings[k].generatedLine
                > LineOfOffset(transformCache[f].transformedSource, p)
NoOriginalMapping(f, p) ==
    f \in DOMAIN transformCache =>
        \A k \in 1..Len(transformCache[f].decodedMappings) :
            transformCache[f].decodedMappings[k].originalLine
                > LineOfOffset(transformCache[f].originalSource, p)

\* C7: mapOriginalToTransformed and mapTransformedToOriginal return the offset unchanged,
\* and mapTextSpan and mapTextSpanToTransformed return the span unchanged, whenever the
\* cache has no entry for the file or neither the queried line nor an earlier line has a
\* decoded mapping.
C7_IdentityFallback ==
    \A f \in FileNames, p \in 0..MaxOffset :
        /\ NoOriginalMapping(f, p) => mapOriginalToTransformed(transformCache, f, p) = p
        /\ NoGeneratedMapping(f, p) => mapTransformedToOriginal(transformCache, f, p) = p
        /\ \A n \in 0..MaxSpanLen :
              LET span == [start |-> p, length |-> n] IN
              /\ (NoGeneratedMapping(f, p) /\ NoGeneratedMapping(f, p + n))
                     => mapTextSpan(transformCache, f, span) = span
              /\ (NoOriginalMapping(f, p) /\ NoOriginalMapping(f, p + n))
                     => mapTextSpanToTransformed(transformCache, f, span) = span

\* a.ts is cached with mappings, all of them on line 2 of both texts, so that queries on
\* line 1 find no mapping; b.ts has no entry.
C7_Witness ==
    /\ "a.ts" \in DOMAIN transformCache
    /\ "b.ts" \notin DOMAIN transformCache
    /\ transformCache["a.ts"].decodedMappings # <<>>
    /\ NoGeneratedMapping("a.ts", 0)
    /\ NoOriginalMapping("a.ts", 0)

\* C8: every remapped span or diagnostic has start = mapped(start) and
\* length = max(0, mapped(start + length) - mapped(start)); the length returned by
\* mapTextSpan, mapTextSpanToTransformed and mapDiagnosticPositions is never negative.
C8_SpanLength ==
    \A f \in DOMAIN transformCache, p \in 0..MaxOffset, n \in 0..MaxSpanLen :
        LET span == [start |-> p, length |-> n]
            back(q) == mapTransformedToOriginal(transformCache, f, q)
            forth(q) == mapOriginalToTransformed(transformCache, f, q)
            diagnostic == mapDiagnosticPosition(transformCache, [file |-> f, start |-> p, length |-> n])
        IN /\ mapTextSpan(transformCache, f, span)
                = [start |-> back(p), length |-> Max(0, back(p + n) - back(p))]
           /\ mapTextSpanToTransformed(transformCache, f, span)
                = [start |-> forth(p), length |-> Max(0, forth(p + n) - forth(p))]
           /\ diagnostic.start = back(p)
           /\ diagnostic.length = Max(0, back(p + n) - back(p))
           /\ diagnostic.length >= 0

\* Bound of the line numbers asked for.
MaxQueryLine == 3

\* The decoded table of the entry of f.
TableOf(f) == getPositionMapper(transformCache, f).decodedMappings

\* Indices of the table of f on generated (original) line l whose column does not exceed c
\* and is the largest such.
LargestGeneratedAtMost(f, l, c) ==
    {k \in 1..Len(TableOf(f)) :
        /\ TableOf(f)[k].generatedLine = l
        /\ TableOf(f)[k].generatedColumn <= c
        /\ \A j \in 1..Len(TableOf(f)) :
              (TableOf(f)[j].generatedLine = l /\ TableOf(f)[j].generatedColumn <= c)
                  => TableOf(f)[j].generatedColumn <= TableOf(f)[k].generatedColumn}
LargestOriginalAtMost(f, l, c) ==
    {k \in 1..Len(TableOf(f)) :
        /\ TableOf(f)[k].originalLine = l
        /\ TableOf(f)[k].originalColumn <= c
        /\ \A j \in 1..Len(TableOf(f)) :
              (TableOf(f)[j].originalLine = l /\ TableOf(f)[j].originalColumn <= c)
                  => TableOf(f)[j].originalColumn <= TableOf(f)[k].originalColumn}

\* The largest index of a non-empty set of indices.
LastOf(ks) == CHOOSE k \in ks : \A j \in ks : j <= k

\* C16: when several decoded mappings on the queried line share the largest column not
\* exceeding the target column, findMappingForGenerated and findMappingForOriginal choose
\* the last of them in table order.
C16_TieTakesLast ==
    \A f \in DOMAIN transformCache, l \in 1..MaxQueryLine, c \in 0..MaxOffset :
        /\ LargestGeneratedAtMost(f, l, c) # {} =>
               findMappingForGenerated(getPositionMapper(transformCache, f), l, c)
                   = TableOf(f)[LastOf(LargestGeneratedAtMost(f, l, c))]
        /\ LargestOriginalAtMost(f, l, c) # {} =>
               findMappingForOriginal(getPositionMapper(transformCache, f), l, c)
                   = TableOf(f)[LastOf(LargestOriginalAtMost(f, l, c))]

\* Indices of the table of f on generated (original) line l.
OnGeneratedLine(f, l) == {k \in 1..Len(TableOf(f)) : TableOf(f)[k].generatedLine = l}
OnOriginalLine(f, l) == {k \in 1..Len(TableOf(f)) : TableOf(f)[k].originalLine = l}

\* C17: when the queried line has a decoded mapping, the mapping used is on that line and
\* its column does not exceed the target column; a mapping of an earlier line is used only
\* when the queried line has none, and it is then the last mapping in table order on the
\* nearest earlier line that has one.
C17_MatchedColumnAtMostTarget ==
    \A f \in DOMAIN transformCache, l \in 1..MaxQueryLine, c \in 0..MaxOffset :
        LET g == findMappingForGenerated(getPositionMapper(transformCache, f), l, c)
            o == findMappingForOriginal(getPositionMapper(transformCache, f), l, c)
        IN /\ IF OnGeneratedLine(f, l) # {}
              THEN g.generatedLine = l /\ g.generatedColumn <= c
              ELSE \/ g = NoMapping /\ \A e \in 1..(l - 1) : OnGeneratedLine(f, e) = {}
                   \/ \E e \in 1..(l - 1) :
                         /\ OnGeneratedLine(f, e) # {}
                         /\ \A d \in (e + 1)..(l - 1) : OnGeneratedLine(f, d) = {}
                         /\ g = TableOf(f)[LastOf(OnGeneratedLine(f, e))]
           /\ IF OnOriginalLine(f, l) # {}
              THEN o.originalLine = l /\ o.originalColumn <= c
              ELSE \/ o = NoMapping /\ \A e \in 1..(l - 1) : OnOriginalLine(f, e) = {}
                   \/ \E e \in 1..(l - 1) :
                         /\ OnOriginalLine(f, e) # {}
                         /\ \A d \in (e + 1)..(l - 1) : OnOriginalLine(f, d) = {}
                         /\ o = TableOf(f)[LastOf(OnOriginalLine(f, e))]

(***************************************************************************)
(* The transform cache under stores, deletes and lookups                   *)
(***************************************************************************)

\* isTransformedFile(fileName)
IsTransformedFile ==
    /\ pc = "cache"
    /\ \E f \in FileNames :
           /\ ret' = isTransformedFile(transformCache, f)
           /\ call' = [op |-> "isTransformedFile", fileName |-> f,
                       existed |-> f \in DOMAIN transformCache]
    /\ UNCHANGED <<transformCache, stored, pc, source, pos, tokens, blocks, output, editVars, codecVars>>

\* getCachedTransformation(fileName)
GetCachedTransformation ==
    /\ pc = "cache"
    /\ \E f \in FileNames :
           /\ ret' = getCachedTransformation(transformCache, f)
           /\ call' = [op |-> "getCachedTransformation", fileName |-> f,
                       existed |-> f \in DOMAIN transformCache]
    /\ UNCHANGED <<transformCache, stored, pc, source, pos, tokens, blocks, output, editVars, codecVars>>

\* getPositionMapper(fileName)
GetPositionMapper ==
    /\ pc = "cache"
    /\ \E f \in FileNames :
           /\ ret' = getPositionMapper(transformCache, f)
           /\ call' = [op |-> "getPositionMapper", fileName |-> f,
                       existed |-> f \in DOMAIN transformCache]
    /\ UNCHANGED <<transformCache, stored, pc, source, pos, tokens, blocks, output, editVars, codecVars>>

\* mapTransformedToOriginal(fileName, transformedPosition)
MapTransformedToOriginal ==
    /\ pc = "cache"
    /\ \E f \in FileNames, p \in 0..MaxOffset :
           /\ ret' = mapTransformedToOriginal(transformCache, f, p)
           /\ call' = [op |-> "mapTransformedToOriginal", fileName |-> f,
                       existed |-> f \in DOMAIN transformCache]
    /\ UNCHANGED <<transformCache, stored, pc, source, pos, tokens, blocks, output, editVars, codecVars>>

\* mapOriginalToTransformed(fileName, originalPosition)
MapOriginalToTransformed ==
    /\ pc = "cache"
    /\ \E f \in FileNames, p \in 0..MaxOffset :
           /\ ret' = mapOriginalToTransformed(transformCache, f, p)
           /\ call' = [op |-> "mapOriginalToTransformed", fileName |-> f,
                       existed |-> f \in DOMAIN transformCache]
    /\ UNCHANGED <<transformCache, stored, pc, source, pos, tokens, blocks, output, editVars, codecVars>>

NextCacheCalls ==
    \/ CacheTransformation
    \/ ClearCachedTransformation
    \/ ClearAllCachedTransformations
    \/ IsTransformedFile
    \/ GetCachedTransformation
    \/ GetPositionMapper
    \/ MapTransformedToOriginal
    \/ MapOriginalToTransformed

SpecCacheCalls == InitCache /\ [][NextCacheCalls]_vars

LookupOps == {"isTransformedFile", "getCachedTransformation", "getPositionMapper",
              "mapTransformedToOriginal", "mapOriginalToTransformed"}

\* The entry of g is the same, present or not, before and after the step.
SameEntry(g) ==
    /\ (g \in DOMAIN transformCache') = (g \in DOMAIN transformCache)
    /\ g \in DOMAIN transformCache => transformCache'[g] = transformCache[g]

\* The entry of f after the step holds the texts of the call and the table decoded from
\* its own map: nothing of an earlier entry is left.
WholeEntry(f) ==
    /\ f \in DOMAIN transformCache'
    /\ transformCache'[f].originalSource = stored'[f].originalSource
    /\ transformCache'[f].transformedSource = stored'[f].transformedSource
    /\ transformCache'[f].sourceMap = SampleSourceMap(transformCache'[f].sourceMap.mappings)
    /\ transformCache'[f].decodedMappings = decodeMappings(transformCache'[f].sourceMap.mappings)
    /\ ret' = PositionMapper(transformCache'[f].sourceMap, transformCache'[f].originalSource,
                             transformCache'[f].transformedSource)

\* C18: cacheTransformation(f, ...) replaces the whole entry of f,
\* clearCachedTransformation(f) removes f, and both leave every other key as it was;
\* clearAllCachedTransformations() leaves no key; a lookup never changes the table.
C18_PerKeyFrame ==
    [][/\ call'.op = "cacheTransformation" =>
             /\ WholeEntry(call'.fileName)
             /\ \A g \in FileNames \ {call'.fileName} : SameEntry(g)
       /\ call'.op = "clearCachedTransformation" =>
             /\ call'.fileName \notin DOMAIN transformCache'
             /\ \A g \in FileNames \ {call'.fileName} : SameEntry(g)
       /\ call'.op = "clearAllCachedTransformations" => DOMAIN transformCache' = {}
       /\ call'.op \in LookupOps => transformCache' = transformCache]_vars

\* The entry of a.ts has just been replaced by one with other texts while b.ts is cached.
C18_Witness ==
    /\ call.op = "cacheTransformation"
    /\ call.fileName = "a.ts"
    /\ call.existed
    /\ "b.ts" \in DOMAIN transformCache
    /\ transformCache["a.ts"].originalSource = <<"a", "\n", "b">>
    /\ transformCache["a.ts"].decodedMappings # <<>>

(***************************************************************************)
(* transformBlockContent as a call                                         *)
(***************************************************************************)

\* Bound of the contents: the number of lines.
MaxLines == 3

\* The lines a content is made of: bind lines with an identifier, a digit, an array and an
\* object target, with and without indentation and semicolon; the openings of a function
\* body, of an arrow body and of a control-flow block; a block opened and closed; a closing
\* brace; a comment, a blank line and a declaration.
ContentLines ==
    {<<"y", "<", "-", "f">>,
     <<" ", " ", "y", " ", "<", "-", " ", "f", ";">>,
     <<"$", "x", "<", "-", "f">>,
     <<"1", "<", "-", "f">>,
     <<"[", "a", ",", "b", "]", "<", "-", "f">>,
     <<"{", "a", "}", "<", "-", "f", ";">>,
     <<"f", "u", "n", "c", "t", "i", "o", "n", "{">>,
     <<"x", "=", ">", "{">>,
     <<"i", "f", "{">>,
     <<"{", "}">>,
     <<"}">>,
     <<"/", "/", "c">>,
     <<>>,
     <<"l", "e", "t", " ", "y", "=", "f">>}

TransformInputs ==
    {Join(ls, <<"\n">>) : ls \in UNION {[1..k -> ContentLines] : k \in 1..MaxLines}}

InitTransform ==
    /\ source \in TransformInputs
    /\ pos = 0
    /\ tokens = <<>>
    /\ blocks = <<>>
    /\ output = <<>>
    /\ pc = "transformBlockContent"
    /\ IdleEdit /\ IdleCache /\ IdleCodec

\* transformBlockContent(content)
TransformBlockContent ==
    /\ pc = "transformBlockContent"
    /\ tokens' = tokenize(source)
    /\ output' = transformBlockContent(source)
    /\ pc' = "transformed"
    /\ UNCHANGED <<source, pos, blocks, editVars, cacheVars, codecVars>>

NextTransform == TransformBlockContent

SpecTransform == InitTransform /\ [][NextTransform]_vars

\* The lines of the content and of the result, and the offset at which line k starts.
SourceLines == Split(source, "\n")
OutputLines == Split(output, "\n")
LineStartOf(k) == Len(Join(SubSeq(SourceLines, 1, k - 1), <<"\n">>)) + (IF k > 1 THEN 1 ELSE 0)

\* Index of the first token that starts on line k, -1 for a line without one.
FirstTokenOfLine(k) ==
    firstTokenIndex(tokens, LineStartOf(k), LineStartOf(k) + Len(SourceLines[k]))

RECURSIVE braceStackAfter(_, _, _, _, _, _)
\* The braces open before token upToIndex, innermost last: TRUE for the brace that opens
\* the body of a function (the first brace after the function keyword) or of an arrow
\* function (the brace that follows => after white space only), FALSE for any other.
braceStackAfter(toks, i, upToIndex, stack, afterFunction, afterArrow) ==
    IF i >= upToIndex THEN stack
    ELSE LET t == toks[i + 1] IN
         IF isPunctuatorToken(t, <<"{">>)
         THEN braceStackAfter(toks, i + 1, upToIndex,
                              Append(stack, afterFunction \/ afterArrow), FALSE, FALSE)
         ELSE IF isPunctuatorToken(t, <<"}">>)
         THEN braceStackAfter(toks, i + 1, upToIndex,
                              SubSeq(stack, 1, Len(stack) - 1), afterFunction, FALSE)
         ELSE IF t.type = "IdentifierName" /\ t.value = FunctionKeyword
         THEN braceStackAfter(toks, i + 1, upToIndex, stack, TRUE, FALSE)
         ELSE IF isPunctuatorToken(t, <<"=", ">">>)
         THEN braceStackAfter(toks, i + 1, upToIndex, stack, afterFunction, TRUE)
         ELSE IF t.type \in {"WhiteSpace", "LineTerminatorSequence"}
         THEN braceStackAfter(toks, i + 1, upToIndex, stack, afterFunction, afterArrow)
         ELSE braceStackAfter(toks, i + 1, upToIndex, stack, afterFunction, FALSE)

OpenBraces(k) == braceStackAfter(tokens, 0, FirstTokenOfLine(k), <<>>, FALSE, FALSE)

\* Line k lies between the brace of a function or arrow body and its matching brace.
InsideFunctionBody(k) == \E d \in 1..Len(OpenBraces(k)) : OpenBraces(k)[d]

\* Line k lies inside braces, none of which is a function or arrow body.
InsideControlFlowOnly(k) == OpenBraces(k) # <<>> /\ ~InsideFunctionBody(k)

\* Line k is a bind line as the rewrite recognises it, and what it is rewritten to.
MatchesBind(k) == bindMatch(trim(SourceLines[k])).matched
Rewritten(k) ==
    LET m == bindMatch(trim(SourceLines[k]))
    IN bindOutput(SourceLines[k], m.varName, m.exprWithSemi)

\* C6: a bind line anywhere inside the body of a block-bodied function or arrow function,
\* also after an inner block has closed inside that body, is emitted verbatim; a bind line
\* inside control-flow braces only, outside any function body, is rewritten.
C6_ScopeExclusion ==
    pc = "transformed" =>
        \A k \in 1..Len(SourceLines) :
            MatchesBind(k) =>
                /\ InsideFunctionBody(k) => OutputLines[k] = SourceLines[k]
                /\ InsideControlFlowOnly(k) => OutputLines[k] = Rewritten(k)

\* C6, its first half alone: nothing inside a function body is rewritten.
C6_VerbatimInsideFunction ==
    pc = "transformed" =>
        \A k \in 1..Len(SourceLines) :
            (MatchesBind(k) /\ InsideFunctionBody(k)) => OutputLines[k] = SourceLines[k]

\* C6, its second half alone: every bind line inside control-flow braces only is rewritten.
C6_RewrittenInsideControlFlow ==
    pc = "transformed" =>
        \A k \in 1..Len(SourceLines) :
            (MatchesBind(k) /\ InsideControlFlowOnly(k)) => OutputLines[k] = Rewritten(k)

\* An identifier: [A-Za-z_$][A-Za-z0-9_$]*
IsIdentifier(s) ==
    s # <<>> /\ isIdentifierStart(s[1]) /\ \A i \in 2..Len(s) : isIdentifierPart(s[i])

\* A destructuring target: identifiers separated by commas between the two brackets.
IsPattern(s, open, close) ==
    /\ Len(s) >= 3
    /\ s[1] = open
    /\ s[Len(s)] = close
    /\ LET names == Split(SubSeq(s, 2, Len(s) - 1), ",")
       IN \A i \in 1..Len(names) : IsIdentifier(trim(names[i]))

\* Where the first <- of s starts, -1 without one.
ArrowAt(s) ==
    LET hits == {i \in 0..(Len(s) - 2) : Slice(s, i, i + 2) = <<"<", "-">>}
    IN IF hits = {} THEN -1 ELSE CHOOSE i \in hits : \A j \in hits : i <= j

\* The target, the expression with its semicolon, and the expression of a bind line.
BindTarget(s) == trimEnd(Slice(s, 0, ArrowAt(s)))
BindRest(s) == trimStart(SliceFrom(s, ArrowAt(s) + 2))
BindExpression(s) ==
    IF endsWith(BindRest(s), <<";">>) THEN SubSeq(BindRest(s), 1, Len(BindRest(s)) - 1)
    ELSE BindRest(s)

\* The bind pattern: an identifier, [a, b] or {a, b}, then <-, then an expression.
IsBindLine(s) ==
    /\ ArrowAt(s) >= 0
    /\ \/ IsIdentifier(BindTarget(s))
       \/ IsPattern(BindTarget(s), "[", "]")
       \/ IsPattern(BindTarget(s), "{", "}")
    /\ BindExpression(s) # <<>>

\* <indent>const <target> = yield* <expression>, with ; iff the line ended with ;
ExpectedRewrite(line) ==
    leadingWhiteSpace(line) \o ConstKeyword \o BindTarget(trim(line)) \o YieldStar
        \o BindExpression(trim(line))
        \o (IF endsWith(trim(line), <<";">>) THEN <<";">> ELSE <<>>)

\* Line k is neither blank nor a comment nor nested, and matches the bind pattern.
MustRewrite(k) ==
    LET trimmed == trim(SourceLines[k]) IN
    /\ trimmed # <<>>
    /\ ~startsWith(trimmed, <<"/", "/">>)
    /\ ~(FirstTokenOfLine(k) >= 0 /\ isInsideNestedFunction(tokens, FirstTokenOfLine(k)))
    /\ IsBindLine(trimmed)

\* C10: a non-blank, non-comment, non-nested line that matches the bind pattern is
\* rewritten to <indent>const <target> = yield* <expression>, with the indentation of the
\* line and with ; iff the line ended with ;. Every other line is emitted unchanged, and
\* the result has as many lines as the content.
C10_BindRewrite ==
    pc = "transformed" =>
        /\ Len(OutputLines) = Len(SourceLines)
        /\ \A k \in 1..Len(SourceLines) :
               OutputLines[k] = IF MustRewrite(k) THEN ExpectedRewrite(SourceLines[k])
                                ELSE SourceLines[k]

\* C10 for targets that are identifiers by both readings: lines whose target starts with
\* $ or with a digit are left out.
C10_BindRewriteOfWordIdentifiers ==
    pc = "transformed" =>
        /\ Len(OutputLines) = Len(SourceLines)
        /\ \A k \in 1..Len(SourceLines) :
               At(trim(SourceLines[k]), 0) \notin Digits \cup {"$"} =>
                   OutputLines[k] = IF MustRewrite(k) THEN ExpectedRewrite(SourceLines[k])
                                    ELSE SourceLines[k]

====
